---------------------------- MODULE Spec2Model ----------------------------
(***************************************************************************)
(* Model of extract_loudest_section_python.py.                             *)
(*                                                                         *)
(* Two specifications share the module:                                    *)
(*   SpecLocate  the segment locator run on every bounded input, one loop  *)
(*               iteration per step (trim_to_loudest_segment_indices), and *)
(*               its twin trim_to_loudest_segment called as a function;    *)
(*   Spec        one run of the program: the __main__ block, main(), and   *)
(*               one trim_file call per matched input file.                *)
(*                                                                         *)
(* Numbers.  A sample is an integer "level"; the amplitude it stands for   *)
(* is level / AmplitudeDen.  AmplitudeDen is a power of two, so levels,    *)
(* their squares and their small sums are exact in float32 and integer     *)
(* arithmetic computes what the code computes.  Python sequences are       *)
(* 0-based; TLA+ sequences are 1-based: Python index k is TLA+ index k+1.  *)
(***************************************************************************)
EXTENDS Integers, Sequences, FiniteSets, TLC

\* ------------------------------------------------------------------ bounds
\* Longest input sequence given to the locator in SpecLocate.
MaxLen == 4
\* Largest sample magnitude (a level) given to the locator in SpecLocate.
MaxAmp == 2
\* Largest number of frames of a decoded file in Spec.
MaxFrames == 3

\* ------------------------------------------------------- program constants
\* desired_length_ms = 1000 (main)
DesiredLengthMs == 1000
\* min_volume = 0.004 (main), as the fraction MinVolumeNum / MinVolumeDen
MinVolumeNum == 4
MinVolumeDen == 1000
\* the divisor of desired_samples = int((desired_length_ms * sample_rate) / 1000)
MsPerSecond == 1000
\* main's check len(sys.argv) < 3
MinArgv == 3
\* main's return values
UsageReturn == -1
SuccessReturn == 0

\* One level is 1/128 of full scale (0.0078125): a frame of level 0 is below
\* min_volume and a frame of level 1 is above it.
AmplitudeDen == 2 * 64

\* No value returned yet.
NoResult == <<>>

\* ------------------------------------------------------------ Python / numpy
Min(a, b) == IF a < b THEN a ELSE b
Abs(x) == IF x < 0 THEN -x ELSE x

\* seq[a:b] for 0 <= a: Python clips b to the length and gives [] when a >= b.
PySlice(s, a, b) == SubSeq(s, a + 1, Min(b, Len(s)))

\* seq[k] is defined for -len <= k < len; anything else raises IndexError.
PyIndexOK(s, k) == k >= -Len(s) /\ k < Len(s)

\* seq[k]: a negative k counts from the end.
PyIndex(s, k) == IF k >= 0 THEN s[k + 1] ELSE s[Len(s) + k + 1]

\* np.sum(np.square(s)); 0 for the empty sequence.
RECURSIVE SumSquares(_)
SumSquares(s) == IF s = <<>> THEN 0 ELSE Head(s) * Head(s) + SumSquares(Tail(s))

\* np.sum(np.abs(s)); 0 for the empty sequence.
RECURSIVE SumAbs(_)
SumAbs(s) == IF s = <<>> THEN 0 ELSE Abs(Head(s)) + SumAbs(Tail(s))

\* The sum of a sequence of integers.
RECURSIVE SumSeq(_)
SumSeq(s) == IF s = <<>> THEN 0 ELSE Head(s) + SumSeq(Tail(s))

\* ------------------------------------------- trim_to_loudest_segment_indices
\* The locals of the sliding pass after the first window has been summed.
FirstWindow(input, W) ==
    [current_volume_sum |-> SumSquares(PySlice(input, 0, W)),
     loudest_volume |-> SumSquares(PySlice(input, 0, W)),
     loudest_start_index |-> 0,
     raised |-> FALSE]

\* Variants of LoopBody, each with one plausible slip; the properties below
\* are required to tell LoopBody from them.
\* ... the best window is replaced on >= instead of >.
LoopBodyMutNonStrict(input, W, st, ii) ==
    IF ~PyIndexOK(input, ii - 1) \/ ~PyIndexOK(input, ii + W - 1)
    THEN [st EXCEPT !.raised = TRUE]
    ELSE LET trailing_value == PyIndex(input, ii - 1)
             leading_value == PyIndex(input, ii + W - 1)
             cur == st.current_volume_sum - trailing_value * trailing_value
                        + leading_value * leading_value
         IN  IF cur >= st.loudest_volume
             THEN [st EXCEPT !.current_volume_sum = cur,
                             !.loudest_volume = cur,
                             !.loudest_start_index = ii]
             ELSE [st EXCEPT !.current_volume_sum = cur]

\* ... the sample leaving the window is not subtracted.
LoopBodyMutNoTrailing(input, W, st, ii) ==
    IF ~PyIndexOK(input, ii - 1) \/ ~PyIndexOK(input, ii + W - 1)
    THEN [st EXCEPT !.raised = TRUE]
    ELSE LET leading_value == PyIndex(input, ii + W - 1)
             cur == st.current_volume_sum + leading_value * leading_value
         IN  IF cur > st.loudest_volume
             THEN [st EXCEPT !.current_volume_sum = cur,
                             !.loudest_volume = cur,
                             !.loudest_start_index = ii]
             ELSE [st EXCEPT !.current_volume_sum = cur]

\* ... the entering sample is taken one index too far.
LoopBodyMutLeadingOffByOne(input, W, st, ii) ==
    IF ~PyIndexOK(input, ii - 1) \/ ~PyIndexOK(input, ii + W)
    THEN [st EXCEPT !.raised = TRUE]
    ELSE LET trailing_value == PyIndex(input, ii - 1)
             leading_value == PyIndex(input, ii + W)
             cur == st.current_volume_sum - trailing_value * trailing_value
                        + leading_value * leading_value
         IN  IF cur > st.loudest_volume
             THEN [st EXCEPT !.current_volume_sum = cur,
                             !.loudest_volume = cur,
                             !.loudest_start_index = ii]
             ELSE [st EXCEPT !.current_volume_sum = cur]

\* ... loudest_volume is not updated with loudest_start_index.
LoopBodyMutStaleBest(input, W, st, ii) ==
    IF ~PyIndexOK(input, ii - 1) \/ ~PyIndexOK(input, ii + W - 1)
    THEN [st EXCEPT !.raised = TRUE]
    ELSE LET trailing_value == PyIndex(input, ii - 1)
             leading_value == PyIndex(input, ii + W - 1)
             cur == st.current_volume_sum - trailing_value * trailing_value
                        + leading_value * leading_value
         IN  IF cur > st.loudest_volume
             THEN [st EXCEPT !.current_volume_sum = cur,
                             !.loudest_start_index = ii]
             ELSE [st EXCEPT !.current_volume_sum = cur]

\* One iteration of the for loop, for index ii: drop input[ii - 1], add
\* input[ii + W - 1], keep the best sum on strict improvement.  An index that
\* Python rejects raises IndexError (raised).
LoopBody(input, W, st, ii) ==
    IF ~PyIndexOK(input, ii - 1) \/ ~PyIndexOK(input, ii + W - 1)
    THEN [st EXCEPT !.raised = TRUE]
    ELSE LET trailing_value == PyIndex(input, ii - 1)
             leading_value == PyIndex(input, ii + W - 1)
             cur == st.current_volume_sum - trailing_value * trailing_value
                        + leading_value * leading_value
         IN  IF cur > st.loudest_volume
             THEN [st EXCEPT !.current_volume_sum = cur,
                             !.loudest_volume = cur,
                             !.loudest_start_index = ii]
             ELSE [st EXCEPT !.current_volume_sum = cur]

\* The last index of range(1, input_size - desired_samples + 1).
LastIndex(input, W) == Len(input) - W

\* Variant of WholeInput: > instead of >=.
WholeInputMutLess(input, W) == W > Len(input)

\* if desired_samples >= input_size: the whole input is the segment.
WholeInput(input, W) == W >= Len(input)

\* The for loop from index ii on; an IndexError ends it.
RECURSIVE RunLoop(_, _, _, _)
RunLoop(input, W, st, ii) ==
    IF ii > LastIndex(input, W) \/ st.raised
    THEN st
    ELSE RunLoop(input, W, LoopBody(input, W, st, ii), ii + 1)

\* The value returned: (start, end), or IndexError when the loop raised.
ReturnValue(st, W) ==
    IF st.raised
    THEN <<"IndexError">>
    ELSE <<st.loudest_start_index, st.loudest_start_index + W>>

trim_to_loudest_segment_indices(input, W) ==
    IF WholeInput(input, W)
    THEN <<0, Len(input)>>
    ELSE ReturnValue(RunLoop(input, W, FirstWindow(input, W), 1), W)

\* --------------------------------------------------- trim_to_loudest_segment
\* The same pass, as written a second time in trim_to_loudest_segment.
SegLoopBody(input, W, st, ii) ==
    IF ~PyIndexOK(input, ii - 1) \/ ~PyIndexOK(input, ii + W - 1)
    THEN [st EXCEPT !.raised = TRUE]
    ELSE LET trailing_value == PyIndex(input, ii - 1)
             leading_value == PyIndex(input, ii + W - 1)
             cur == st.current_volume_sum - trailing_value * trailing_value
                        + leading_value * leading_value
         IN  IF cur > st.loudest_volume
             THEN [st EXCEPT !.current_volume_sum = cur,
                             !.loudest_volume = cur,
                             !.loudest_start_index = ii]
             ELSE [st EXCEPT !.current_volume_sum = cur]

RECURSIVE SegRunLoop(_, _, _, _)
SegRunLoop(input, W, st, ii) ==
    IF ii > Len(input) - W \/ st.raised
    THEN st
    ELSE SegRunLoop(input, W, SegLoopBody(input, W, st, ii), ii + 1)

trim_to_loudest_segment(input, W) ==
    IF W >= Len(input)
    THEN <<0, Len(input)>>
    ELSE LET first == [current_volume_sum |-> SumSquares(PySlice(input, 0, W)),
                       loudest_volume |-> SumSquares(PySlice(input, 0, W)),
                       loudest_start_index |-> 0,
                       raised |-> FALSE]
             st == SegRunLoop(input, W, first, 1)
         IN  IF st.raised
             THEN <<"IndexError">>
             ELSE <<st.loudest_start_index, st.loudest_start_index + W>>

\* ------------------------------------------------------------------ trim_file
\* What sf.read can give for a file: an exception, or a 2-D float32 buffer
\* (frames, each a tuple of one level per channel) and its sample rate.
ChannelCounts == {1, 2}
SampleRates == {1, 2}
Levels == {-1, 0, 1}

DecodeError == [ok |-> FALSE, channels |-> 0, frames |-> <<>>, sample_rate |-> 0]

SeqsUpTo(S, n) == UNION {[1 .. m -> S] : m \in 0 .. n}

DecodeResults ==
    {DecodeError} \cup
    UNION {{[ok |-> TRUE, channels |-> c, frames |-> f, sample_rate |-> r] :
               f \in SeqsUpTo([1 .. c -> Levels], MaxFrames), r \in SampleRates} :
           c \in ChannelCounts}

\* wav_samples.mean(axis=1), each value kept as its numerator over the common
\* denominator channels: mono_samples(d)[f] / d.channels is the mean of frame f.
\* The locator compares sums of squares of these, which the common positive
\* factor leaves in the same order.
mono_samples(d) == [f \in 1 .. Len(d.frames) |-> SumSeq(d.frames[f])]

\* int((desired_length_ms * sample_rate) / 1000); the operands are not
\* negative, so truncation is the floor.
DesiredSamples(desired_length_ms, sample_rate) ==
    (desired_length_ms * sample_rate) \div MsPerSecond

\* np.mean(np.abs(trimmed_mono_samples)) as the fraction num / den of full
\* scale; den = 0 is numpy's nan for the empty window.
AverageVolume(trimmed_mono_samples, channels) ==
    [num |-> SumAbs(trimmed_mono_samples),
     den |-> Len(trimmed_mono_samples) * channels * AmplitudeDen]

\* Variant of TooQuiet: the comparison inverted.
TooQuietMutInverted(average_volume, min_volume) ==
    /\ average_volume.den > 0
    /\ average_volume.num * min_volume.den > min_volume.num * average_volume.den

\* average_volume < min_volume; a comparison with nan is False.
TooQuiet(average_volume, min_volume) ==
    /\ average_volume.den > 0
    /\ average_volume.num * min_volume.den < min_volume.num * average_volume.den

\* Variant of TrimmedSamples: the right number of frames, taken from frame 0.
TrimmedSamplesMutFromZero(frames, start_idx, end_idx) ==
    PySlice(frames, 0, end_idx - start_idx)

\* wav_samples[start_idx:end_idx, :]
TrimmedSamples(frames, start_idx, end_idx) == PySlice(frames, start_idx, end_idx)

\* What a trim_file call did, when it ended before the locator returned.
EarlyOutcome(outcome, d) ==
    [outcome |-> outcome, wav |-> d, mono |-> <<>>, desired_samples |-> 0,
     start_idx |-> 0, end_idx |-> 0, average_volume |-> [num |-> 0, den |-> 0],
     encoded |-> <<>>]

\* One call of trim_file, given what sf.read gives for input_filename (d) and
\* whether sf.write succeeds (write_ok).  outcome is
\*   "decode_failed"  sf.read raised; caught, reported, return
\*   "too_quiet"      the skip report with average_volume, return
\*   "saved"          sf.write returned
\*   "encode_failed"  sf.write raised; caught, reported
\*   "raised"         an exception left trim_file (the locator's IndexError)
\* and encoded holds the arguments sf.write was called with, if it was called.
trim_file(input_filename, output_filename, desired_length_ms, min_volume, d, write_ok) ==
    IF ~d.ok
    THEN EarlyOutcome("decode_failed", d)
    ELSE
    LET mono == mono_samples(d)
        desired == DesiredSamples(desired_length_ms, d.sample_rate)
        indices == trim_to_loudest_segment_indices(mono, desired)
    IN  IF Len(indices) # 2
        THEN EarlyOutcome("raised", d)
        ELSE
        LET start_idx == indices[1]
            end_idx == indices[2]
            trimmed_mono_samples == PySlice(mono, start_idx, end_idx)
            average_volume == AverageVolume(trimmed_mono_samples, d.channels)
            trimmed_samples == TrimmedSamples(d.frames, start_idx, end_idx)
        IN  [outcome |-> IF TooQuiet(average_volume, min_volume) THEN "too_quiet"
                         ELSE IF write_ok THEN "saved" ELSE "encode_failed",
             wav |-> d, mono |-> mono, desired_samples |-> desired,
             start_idx |-> start_idx, end_idx |-> end_idx,
             average_volume |-> average_volume,
             encoded |-> IF TooQuiet(average_volume, min_volume) THEN <<>>
                         ELSE <<[path |-> output_filename, frames |-> trimmed_samples,
                                 channels |-> d.channels,
                                 samplerate |-> d.sample_rate]>>]

\* ----------------------------------------------------------------------- main
\* A path is <<directory, base name>>.
\* os.path.split(input_filename)[1]
BaseName(path) == path[2]

\* os.path.join(output_root, input_base)
JoinPath(root, base) == <<root, base>>

\* os.path.dirname(output_filename)
DirName(path) == path[1]

\* The output path of each input, in order (the first for loop of main).
OutputFilenames(inputs, root) ==
    [j \in 1 .. Len(inputs) |-> JoinPath(root, BaseName(inputs[j]))]

\* Variant of OutputDirs: no directory is collected.
OutputDirsMutEmpty(outputs) == {}

\* The set output_dirs the first for loop of main collects.
OutputDirs(outputs) == {DirName(outputs[j]) : j \in 1 .. Len(outputs)}

\* os.makedirs(output_dir, exist_ok=True) returns: the name is not empty
\* (FileNotFoundError) and the file system lets the directory exist (it is
\* not a regular file nor under one, and may be created: FileExistsError,
\* NotADirectoryError, PermissionError otherwise).
MakeDirsOK(output_dir, blocked) == output_dir # "" /\ output_dir \notin blocked

\* The status the interpreter exits with after the statement main() of the
\* __main__ block: the value main returned is not used; an exception that
\* leaves main gives 1.
ExitStatus(returned, uncaught) == IF uncaught THEN 1 ELSE 0

\* ---------------------------------------------------------------- the state
VARIABLES
    \* the locator's arguments and locals (trim_to_loudest_segment_indices)
    input_samples, desired_samples,
    current_volume_sum, loudest_volume, loudest_start_index,
    i,              \* the loop index the next iteration uses
    lpc,            \* "entry", "loop", "done", "raised", "both_done"; "idle" in Spec
    loc_result,     \* what trim_to_loudest_segment_indices returned
    seg_result,     \* what trim_to_loudest_segment returned
    \* bookkeeping of the run of the loop
    iters,          \* iterations of the for loop run so far
    loop_reads,     \* the indices the loop body has subscripted input_samples with
    read_count,     \* how often each sample has been read
    \* the program's environment
    argv_len,       \* len(sys.argv)
    output_root,    \* sys.argv[2]
    glob_matches,   \* what glob.glob(sys.argv[1]) returns
    blocked_dirs,   \* the directories the file system refuses to create
    made_dirs,      \* the directories os.makedirs has been called for
    write_paths,    \* the paths sf.write has been called with
    files_written,  \* the paths sf.write has written
    usage_printed,  \* the usage message has been printed
    exit_status,    \* <<the status the process exited with>>, once it has exited
    \* main's locals
    pc,             \* "start", "makedirs", "trim", "called", "returned", "crashed" (an
                    \* exception has left main), "exited"; "idle" in SpecLocate
    input_filenames, output_filenames, output_dirs,
    dirs_todo,      \* the directories the makedirs loop has yet to visit
    k,              \* the position of the trim loop in zip(input_filenames, output_filenames)
    main_ret,       \* <<the value main returned>>, once it has returned
    calls,          \* the trim_file calls made so far: arguments and outcome
    call            \* what the last trim_file call did

locVars == <<input_samples, desired_samples, current_volume_sum, loudest_volume,
             loudest_start_index, i, lpc, loc_result, seg_result, iters,
             loop_reads, read_count>>

mainVars == <<argv_len, output_root, glob_matches, blocked_dirs, made_dirs, write_paths,
              files_written, usage_printed, exit_status, pc, input_filenames,
              output_filenames, output_dirs, dirs_todo, k, main_ret, calls, call>>

vars == <<locVars, mainVars>>

\* The locator's variables while the program runs (Spec).
LocIdle ==
    /\ input_samples = <<>>
    /\ desired_samples = 0
    /\ current_volume_sum = 0
    /\ loudest_volume = 0
    /\ loudest_start_index = 0
    /\ i = 0
    /\ lpc = "idle"
    /\ loc_result = NoResult
    /\ seg_result = NoResult
    /\ iters = 0
    /\ loop_reads = {}
    /\ read_count = <<>>

NoCall == EarlyOutcome("none", DecodeError)

\* The program's variables before it starts, given its environment.
MainStart ==
    /\ made_dirs = {}
    /\ write_paths = {}
    /\ files_written = {}
    /\ usage_printed = FALSE
    /\ exit_status = NoResult
    /\ input_filenames = <<>>
    /\ output_filenames = <<>>
    /\ output_dirs = {}
    /\ dirs_todo = {}
    /\ k = 0
    /\ main_ret = NoResult
    /\ calls = <<>>
    /\ call = NoCall

\* The program's variables while the locator runs alone (SpecLocate).
MainIdle ==
    /\ argv_len = 1
    /\ output_root = ""
    /\ glob_matches = <<>>
    /\ blocked_dirs = {}
    /\ pc = "idle"
    /\ MainStart

\* ------------------------------------------------------- SpecLocate: inputs
SampleValues == -MaxAmp .. MaxAmp

\* desired_samples ranges past the longest input, so that W > N happens too.
DesiredRange == 0 .. MaxLen + 1

LocInit ==
    /\ input_samples \in SeqsUpTo(SampleValues, MaxLen)
    /\ desired_samples \in DesiredRange
    /\ current_volume_sum = 0
    /\ loudest_volume = 0
    /\ loudest_start_index = 0
    /\ i = 0
    /\ lpc = "entry"
    /\ loc_result = NoResult
    /\ seg_result = NoResult
    /\ iters = 0
    /\ loop_reads = {}
    /\ read_count = [n \in 0 .. Len(input_samples) - 1 |-> 0]
    /\ MainIdle

\* The locals as the record the loop body works on.
Locals ==
    [current_volume_sum |-> current_volume_sum,
     loudest_volume |-> loudest_volume,
     loudest_start_index |-> loudest_start_index,
     raised |-> FALSE]

\* The sample Python index k denotes, as an index of 0 .. len - 1.
Wrapped(s, n) == IF n >= 0 THEN n ELSE Len(s) + n

\* read_count after one more read of each index of the sequence idxs.
RECURSIVE Counted(_, _, _)
Counted(rc, s, idxs) ==
    IF idxs = <<>>
    THEN rc
    ELSE LET n == Head(idxs)
             rc1 == IF PyIndexOK(s, n)
                    THEN [rc EXCEPT ![Wrapped(s, n)] = @ + 1]
                    ELSE rc
         IN  Counted(rc1, s, Tail(idxs))

\* Entry of trim_to_loudest_segment_indices: the early return, or the sum of
\* the first window and the initial best.
LocEntry ==
    /\ lpc = "entry"
    /\ IF WholeInput(input_samples, desired_samples)
       THEN /\ loc_result' = <<0, Len(input_samples)>>
            /\ lpc' = "done"
            /\ UNCHANGED <<current_volume_sum, loudest_volume, loudest_start_index,
                           i, read_count>>
       ELSE LET st == FirstWindow(input_samples, desired_samples)
            IN  /\ current_volume_sum' = st.current_volume_sum
                /\ loudest_volume' = st.loudest_volume
                /\ loudest_start_index' = st.loudest_start_index
                /\ i' = 1
                /\ lpc' = "loop"
                /\ read_count' = [n \in DOMAIN read_count |->
                                     IF n < desired_samples THEN 1 ELSE 0]
                /\ UNCHANGED loc_result
    /\ UNCHANGED <<input_samples, desired_samples, seg_result, iters, loop_reads>>
    /\ UNCHANGED mainVars

\* One iteration of the for loop.
LocIter ==
    /\ lpc = "loop"
    /\ i <= LastIndex(input_samples, desired_samples)
    /\ LET st == LoopBody(input_samples, desired_samples, Locals, i)
       IN  /\ current_volume_sum' = st.current_volume_sum
           /\ loudest_volume' = st.loudest_volume
           /\ loudest_start_index' = st.loudest_start_index
           /\ lpc' = IF st.raised THEN "raised" ELSE "loop"
    /\ i' = i + 1
    /\ iters' = iters + 1
    /\ loop_reads' = loop_reads \cup {i - 1, i + desired_samples - 1}
    /\ read_count' = Counted(read_count, input_samples,
                             <<i - 1, i + desired_samples - 1>>)
    /\ UNCHANGED <<input_samples, desired_samples, loc_result, seg_result>>
    /\ UNCHANGED mainVars

\* The loop is exhausted: return (loudest_start_index, loudest_end_index).
LocReturn ==
    /\ lpc = "loop"
    /\ i > LastIndex(input_samples, desired_samples)
    /\ loc_result' = ReturnValue(Locals, desired_samples)
    /\ lpc' = "done"
    /\ UNCHANGED <<input_samples, desired_samples, current_volume_sum,
                   loudest_volume, loudest_start_index, i, seg_result, iters,
                   loop_reads, read_count>>
    /\ UNCHANGED mainVars

\* The same arguments given to trim_to_loudest_segment.
CallSegment ==
    /\ lpc = "done"
    /\ seg_result' = trim_to_loudest_segment(input_samples, desired_samples)
    /\ lpc' = "both_done"
    /\ UNCHANGED <<input_samples, desired_samples, current_volume_sum,
                   loudest_volume, loudest_start_index, i, loc_result, iters,
                   loop_reads, read_count>>
    /\ UNCHANGED mainVars

LocNext == LocEntry \/ LocIter \/ LocReturn \/ CallSegment

SpecLocate == LocInit /\ [][LocNext]_vars

\* ------------------------------------------------------ Spec: the program
ArgvLens == 1 .. 3
\* sys.argv[2]; with the empty string the output paths are bare base names.
OutputRoots == {"out", ""}
\* The files of the input directories, in the order the file system lists them.
DirectoryListing == << <<"a", "x.wav">>, <<"b", "y.wav">> >>

\* The paths of listing at the positions in keep, in listing order.
RECURSIVE Matching(_, _, _)
Matching(listing, keep, n) ==
    IF n > Len(listing)
    THEN <<>>
    ELSE (IF n \in keep THEN <<listing[n]>> ELSE <<>>) \o Matching(listing, keep, n + 1)

\* glob.glob returns the paths the pattern matches, each once.
GlobResults ==
    {Matching(DirectoryListing, keep, 1) : keep \in SUBSET (1 .. Len(DirectoryListing))}

Init ==
    /\ argv_len \in ArgvLens
    /\ output_root \in OutputRoots
    /\ glob_matches \in GlobResults
    /\ blocked_dirs \in SUBSET (OutputRoots \ {""})
    /\ pc = "start"
    /\ MainStart
    /\ LocIdle

\* if len(sys.argv) < 3: print the usage message and return -1.
MainUsage ==
    /\ pc = "start"
    /\ argv_len < MinArgv
    /\ usage_printed' = TRUE
    /\ main_ret' = <<UsageReturn>>
    /\ pc' = "returned"
    /\ UNCHANGED <<argv_len, output_root, glob_matches, blocked_dirs, made_dirs, write_paths,
                   files_written, exit_status, input_filenames, output_filenames,
                   output_dirs, dirs_todo, k, calls, call>>
    /\ UNCHANGED locVars

\* glob the inputs and derive output_filenames and output_dirs.
MainCollect ==
    /\ pc = "start"
    /\ argv_len >= MinArgv
    /\ input_filenames' = glob_matches
    /\ output_filenames' = OutputFilenames(glob_matches, output_root)
    /\ output_dirs' = OutputDirs(OutputFilenames(glob_matches, output_root))
    /\ dirs_todo' = OutputDirs(OutputFilenames(glob_matches, output_root))
    /\ pc' = "makedirs"
    /\ UNCHANGED <<argv_len, output_root, glob_matches, blocked_dirs, made_dirs, write_paths,
                   files_written, usage_printed, exit_status, k, main_ret, calls,
                   call>>
    /\ UNCHANGED locVars

\* One iteration of: for output_dir in output_dirs: os.makedirs(output_dir, exist_ok=True)
\* An exception of os.makedirs is not caught: it leaves main.
MakeDir ==
    /\ pc = "makedirs"
    /\ \E output_dir \in dirs_todo :
          IF MakeDirsOK(output_dir, blocked_dirs)
          THEN /\ made_dirs' = made_dirs \cup {output_dir}
               /\ dirs_todo' = dirs_todo \ {output_dir}
               /\ pc' = "makedirs"
          ELSE /\ pc' = "crashed"
               /\ UNCHANGED <<made_dirs, dirs_todo>>
    /\ UNCHANGED <<argv_len, output_root, glob_matches, blocked_dirs, write_paths,
                   files_written, usage_printed, exit_status, input_filenames,
                   output_filenames, output_dirs, k, main_ret, calls, call>>
    /\ UNCHANGED locVars

\* The makedirs loop is exhausted; the assert on the two lists' lengths holds
\* by construction; the trim loop starts.
StartTrimLoop ==
    /\ pc = "makedirs"
    /\ dirs_todo = {}
    /\ Len(input_filenames) = Len(output_filenames)
    /\ k' = 1
    /\ pc' = "trim"
    /\ UNCHANGED <<argv_len, output_root, glob_matches, blocked_dirs, made_dirs, write_paths,
                   files_written, usage_printed, exit_status, input_filenames,
                   output_filenames, output_dirs, dirs_todo, main_ret, calls, call>>
    /\ UNCHANGED locVars

\* The call of one iteration of the trim loop: trim_file on the k-th pair,
\* with what the decoder gives for the file and whether the encoder succeeds.
\* An exception that leaves trim_file leaves main too.
TrimFileCall ==
    /\ pc = "trim"
    /\ k <= Len(input_filenames)
    /\ \E d \in DecodeResults, write_ok \in BOOLEAN :
          LET min_volume == [num |-> MinVolumeNum, den |-> MinVolumeDen]
              res == trim_file(input_filenames[k], output_filenames[k],
                               DesiredLengthMs, min_volume, d, write_ok)
          IN  /\ call' = res
              /\ calls' = Append(calls,
                                 [input_filename |-> input_filenames[k],
                                  output_filename |-> output_filenames[k],
                                  desired_length_ms |-> DesiredLengthMs,
                                  min_volume |-> min_volume,
                                  outcome |-> call'.outcome])
              /\ write_paths' = write_paths \cup
                                   {call'.encoded[n].path : n \in 1 .. Len(call'.encoded)}
              /\ files_written' = IF call'.outcome = "saved"
                                  THEN files_written \cup {output_filenames[k]}
                                  ELSE files_written
              /\ pc' = IF call'.outcome = "raised" THEN "crashed" ELSE "called"
    /\ UNCHANGED <<argv_len, output_root, glob_matches, blocked_dirs, made_dirs, usage_printed,
                   exit_status, input_filenames, output_filenames, output_dirs,
                   dirs_todo, k, main_ret>>
    /\ UNCHANGED locVars

\* trim_file has returned (its locals are gone); the loop moves to the next pair.
TrimFileReturn ==
    /\ pc = "called"
    /\ call' = NoCall
    /\ k' = k + 1
    /\ pc' = "trim"
    /\ UNCHANGED <<argv_len, output_root, glob_matches, blocked_dirs, made_dirs, write_paths,
                   files_written, usage_printed, exit_status, input_filenames,
                   output_filenames, output_dirs, dirs_todo, main_ret, calls>>
    /\ UNCHANGED locVars

\* The trim loop is exhausted: return 0.
MainReturn ==
    /\ pc = "trim"
    /\ k > Len(input_filenames)
    /\ main_ret' = <<SuccessReturn>>
    /\ pc' = "returned"
    /\ UNCHANGED <<argv_len, output_root, glob_matches, blocked_dirs, made_dirs, write_paths,
                   files_written, usage_printed, exit_status, input_filenames,
                   output_filenames, output_dirs, dirs_todo, k, calls, call>>
    /\ UNCHANGED locVars

\* The __main__ block's statement main() has ended; the interpreter exits.
ProcessExit ==
    /\ pc \in {"returned", "crashed"}
    /\ exit_status' = <<ExitStatus(main_ret, pc = "crashed")>>
    /\ pc' = "exited"
    /\ UNCHANGED <<argv_len, output_root, glob_matches, blocked_dirs, made_dirs, write_paths,
                   files_written, usage_printed, input_filenames, output_filenames,
                   output_dirs, dirs_todo, k, main_ret, calls, call>>
    /\ UNCHANGED locVars

Next ==
    \/ MainUsage
    \/ MainCollect
    \/ MakeDir
    \/ StartTrimLoop
    \/ TrimFileCall
    \/ TrimFileReturn
    \/ MainReturn
    \/ ProcessExit

Spec == Init /\ [][Next]_vars

\* ======================================================================
\* Properties
\* ======================================================================

\* Brute force: the sum of squares of the W samples from 0-based index s on.
Energy(input, s, W) == SumSquares(SubSeq(input, s + 1, s + W))

\* The start indices of the windows of length W.
WindowStarts(input, W) == 0 .. Len(input) - W

LocFinished == lpc \in {"done", "both_done"}

ProperWindow == desired_samples < Len(input_samples)

\* r is (start, start + W) of a window no other window of length W is louder than.
IsLoudest(r) ==
    /\ Len(r) = 2
    /\ r[1] \in WindowStarts(input_samples, desired_samples)
    /\ r[2] = r[1] + desired_samples
    /\ \A s \in WindowStarts(input_samples, desired_samples) :
          Energy(input_samples, r[1], desired_samples)
              >= Energy(input_samples, s, desired_samples)

\* C1: for 0 <= W < N, the window returned by trim_to_loudest_segment_indices,
\* and the one returned by trim_to_loudest_segment, has a sum of squares at
\* least that of every contiguous window of length W (brute force).
C1_LoudestWindow ==
    /\ (LocFinished /\ ProperWindow) => IsLoudest(loc_result)
    /\ (lpc = "both_done" /\ ProperWindow) => IsLoudest(seg_result)

\* Both functions have returned a window that starts after index 1 and that
\* is strictly louder than some other window.
C1_Witness ==
    /\ lpc = "both_done"
    /\ ProperWindow
    /\ desired_samples >= 2
    /\ loc_result[1] >= 2
    /\ seg_result = loc_result
    /\ \E s \in WindowStarts(input_samples, desired_samples) :
          Energy(input_samples, s, desired_samples)
              < Energy(input_samples, loc_result[1], desired_samples)

\* C2: when several windows share the maximum energy the locator returns the
\* one with the lowest start index: every window that starts before the
\* returned one is strictly quieter.  [1,1,1,1] with W = 2 gives start 0.
C2_EarliestOnTie ==
    (LocFinished /\ ProperWindow) =>
        /\ Len(loc_result) = 2
        /\ \A s \in 0 .. loc_result[1] - 1 :
              Energy(input_samples, s, desired_samples)
                  < Energy(input_samples, loc_result[1], desired_samples)
        /\ (input_samples = <<1, 1, 1, 1>> /\ desired_samples = 2) => loc_result[1] = 0

\* The locator has returned on [1,1,1,1] with W = 2, where the windows at
\* 0, 1 and 2 all have energy 2.
C2_Witness ==
    /\ LocFinished
    /\ input_samples = <<1, 1, 1, 1>>
    /\ desired_samples = 2
    /\ Energy(input_samples, 2, 2) = Energy(input_samples, 0, 2)

\* C3: for desired_samples >= len(input), the empty input included, the
\* locator returns (0, len(input)) and never enters the sliding pass: it sums
\* no window, runs no iteration and reads no sample.
C3_WholeInput ==
    desired_samples >= Len(input_samples) =>
        /\ lpc \notin {"loop", "raised"}
        /\ iters = 0
        /\ loop_reads = {}
        /\ \A n \in DOMAIN read_count : read_count[n] = 0
        /\ LocFinished => loc_result = <<0, Len(input_samples)>>
        /\ lpc = "both_done" => seg_result = <<0, Len(input_samples)>>

\* Both functions have returned on an input of at least two samples with
\* desired_samples equal to its length.
C3_Witness ==
    /\ lpc = "both_done"
    /\ Len(input_samples) >= 2
    /\ desired_samples = Len(input_samples)

\* C4: for every N >= 0 and W >= 0 the locator does not raise, the loop
\* subscripts the input only inside [0, N), the loop index stays within
\* 1 .. N - W + 1 (so the loop ends), and the returned (start, end) satisfies
\* 0 <= start <= end <= N and end - start = min(W, N).
C4_ValidRange ==
    /\ lpc # "raised"
    /\ loop_reads \subseteq 0 .. Len(input_samples) - 1
    /\ lpc = "loop" =>
          /\ i \in 1 .. Len(input_samples) - desired_samples + 1
          /\ iters = i - 1
    /\ LocFinished =>
          /\ Len(loc_result) = 2
          /\ 0 <= loc_result[1]
          /\ loc_result[1] <= loc_result[2]
          /\ loc_result[2] <= Len(input_samples)
          /\ loc_result[2] - loc_result[1]
                = Min(desired_samples, Len(input_samples))

\* The locator has returned for W = 0 on an input of at least two samples,
\* after one iteration per sample.
C4_Witness ==
    /\ LocFinished
    /\ desired_samples = 0
    /\ Len(input_samples) >= 2
    /\ iters = Len(input_samples)
    /\ loop_reads = 0 .. Len(input_samples) - 1

\* The largest energy among the windows that start at 0 .. last.
MaxEnergyUpTo(input, W, last) ==
    CHOOSE e \in {Energy(input, s, W) : s \in 0 .. last} :
        \A s \in 0 .. last : e >= Energy(input, s, W)

\* C10: in the sliding pass (0 <= W < N), after the iteration for index
\* i - 1 (and before the first one, for the window at 0): current_volume_sum
\* is the brute-force energy of the window at i - 1, loudest_volume is the
\* largest energy of the windows at 0 .. i - 1, loudest_start_index is the
\* smallest start that attains it; no sample is read more than twice (once
\* entering a window, once leaving it); the loop runs exactly N - W
\* iterations.
C10_LoopInvariant ==
    /\ lpc = "loop" =>
          /\ iters = i - 1
          /\ current_volume_sum = Energy(input_samples, i - 1, desired_samples)
          /\ loudest_volume = MaxEnergyUpTo(input_samples, desired_samples, i - 1)
          /\ loudest_start_index \in 0 .. i - 1
          /\ Energy(input_samples, loudest_start_index, desired_samples)
                = loudest_volume
          /\ \A s \in 0 .. loudest_start_index - 1 :
                Energy(input_samples, s, desired_samples) < loudest_volume
    /\ \A n \in DOMAIN read_count : read_count[n] <= 2
    /\ (LocFinished /\ ProperWindow) =>
          iters = Len(input_samples) - desired_samples

\* The loop has run at least two iterations; the best window is the one at
\* index 1 and the current window is quieter.
C10_Witness ==
    /\ lpc = "loop"
    /\ i >= 3
    /\ loudest_start_index = 1
    /\ current_volume_sum < loudest_volume
    /\ \E n \in DOMAIN read_count : read_count[n] = 2

\* ----------------------------------------------------- trim_file and main
\* The per-frame channel sums of frames [start, end) of a decoded buffer:
\* the mono reduction of the window, times the channel count.
WindowSums(d, start, end) ==
    [n \in 1 .. end - start |-> SumSeq(d.frames[start + n])]

\* The mean absolute value of the mono reduction over [start, end), measured
\* from the decoded buffer, is below 0.004.  The mean of a window of n frames
\* is SumAbs / (n * channels * AmplitudeDen); an empty window has no mean.
MeasuredBelowGate(d, start, end) ==
    /\ end > start
    /\ SumAbs(WindowSums(d, start, end)) * 1000
          < 4 * (end - start) * d.channels * AmplitudeDen

\* In the state after a trim_file call that decoded its input.
AfterDecodedCall == pc = "called" /\ call.wav.ok

C5_GateState ==
    AfterDecodedCall =>
        IF MeasuredBelowGate(call.wav, call.start_idx, call.end_idx)
        THEN /\ call.outcome = "too_quiet"
             /\ call.encoded = <<>>
             /\ call.average_volume.num
                   = SumAbs(WindowSums(call.wav, call.start_idx, call.end_idx))
             /\ call.average_volume.den
                   = (call.end_idx - call.start_idx) * call.wav.channels * AmplitudeDen
        ELSE /\ call.outcome \in {"saved", "encode_failed"}
             /\ Len(call.encoded) = 1

C5_GateStep ==
    (pc = "trim" /\ pc' = "called" /\ call'.outcome = "too_quiet") =>
        /\ files_written' = files_written
        /\ write_paths' = write_paths

\* C5: in trim_file, for a decoded input, if the mean absolute value of the
\* mono reduction over the located window is strictly below min_volume the
\* outcome is the too-quiet report carrying the measured value, sf.write is
\* not called and no output file is created or modified; otherwise sf.write
\* is called with the slice.
C5_QuietSkip == [](C5_GateState) /\ [][C5_GateStep]_vars

\* A call has skipped a file of at least two frames that is not silent, after
\* an earlier call saved its file.
C5_Witness ==
    /\ AfterDecodedCall
    /\ call.outcome = "too_quiet"
    /\ call.end_idx - call.start_idx >= 2
    /\ call.average_volume.num > 0
    /\ files_written # {}

\* C6: main calls trim_file once per matched input, in the order of the
\* match, with desired_length_ms = 1000 and min_volume = 0.004, for every list
\* of matched files and every outcome of the calls; main then returns 0.
C6_BatchIsolation ==
    /\ pc # "crashed"
    /\ Len(calls) <= Len(glob_matches)
    /\ \A j \in 1 .. Len(calls) :
          /\ calls[j].input_filename = glob_matches[j]
          /\ calls[j].output_filename = <<output_root, glob_matches[j][2]>>
          /\ calls[j].desired_length_ms = 1000
          /\ calls[j].min_volume.num * 1000 = 4 * calls[j].min_volume.den
          /\ calls[j].outcome
                \in {"decode_failed", "too_quiet", "encode_failed", "saved"}
    /\ pc = "trim" => Len(calls) = k - 1
    /\ pc = "called" => Len(calls) = k
    /\ (pc = "exited" /\ argv_len >= 3) =>
          /\ Len(calls) = Len(glob_matches)
          /\ main_ret = <<0>>

\* C7: started with fewer than 2 arguments (len(sys.argv) < 3) the program
\* prints the usage error, processes no file, creates no directory and exits
\* with a nonzero status; started with 2 or more arguments it exits with
\* status 0 when the batch completes (main returns).
C7_ExitStatus ==
    pc = "exited" =>
        IF argv_len < 3
        THEN /\ usage_printed
             /\ calls = <<>>
             /\ made_dirs = {}
             /\ exit_status # <<0>>
        ELSE main_ret = <<0>> => exit_status = <<0>>

\* C8: whenever trim_file calls sf.write, the buffer it passes is the decoded
\* multi-channel buffer restricted to the frames [start, end) of the loudest
\* window of the mono reduction (the earliest one of min(desired_samples, N)
\* frames with the largest energy): same channel count, same sample rate,
\* end - start frames, and frame n of it is frame start + n of the original,
\* channel by channel.
C8_SlicePreserved ==
    (AfterDecodedCall /\ Len(call.encoded) = 1) =>
        LET e == call.encoded[1]
            d == call.wav
            N == Len(d.frames)
            W == Min(d.sample_rate, N)
            sums == WindowSums(d, 0, N)
        IN  /\ e.channels = d.channels
            /\ e.samplerate = d.sample_rate
            /\ e.path = calls[Len(calls)].output_filename
            /\ call.start_idx \in 0 .. N - W
            /\ call.end_idx = call.start_idx + W
            /\ \A s \in 0 .. N - W :
                  Energy(sums, call.start_idx, W) >= Energy(sums, s, W)
            /\ \A s \in 0 .. call.start_idx - 1 :
                  Energy(sums, call.start_idx, W) > Energy(sums, s, W)
            /\ Len(e.frames) = call.end_idx - call.start_idx
            /\ \A n \in 1 .. Len(e.frames) :
                  /\ Len(e.frames[n]) = d.channels
                  /\ \A c \in 1 .. d.channels :
                        e.frames[n][c] = d.frames[call.start_idx + n][c]

\* sf.write has been called with two frames of a two-channel file, taken from
\* frame 1 on, in which the channels differ.
C8_Witness ==
    /\ AfterDecodedCall
    /\ Len(call.encoded) = 1
    /\ call.wav.channels = 2
    /\ call.start_idx = 1
    /\ call.end_idx = 3
    /\ call.encoded[1].frames[1][1] # call.encoded[1].frames[1][2]
    /\ call.wav.frames[1] # call.wav.frames[2]

\* C9: the directory of every derived output path output_dir/basename(input)
\* has been created before the first trim_file call, so sf.write is never
\* called with a path whose directory has not been created; with a glob
\* that matches no file no directory is created.
C9_DirsBeforeWrites ==
    /\ (pc \in {"trim", "called"} \/ Len(calls) > 0) =>
          \A j \in 1 .. Len(glob_matches) :
              <<output_root, glob_matches[j][2]>>[1] \in made_dirs
    /\ \A path \in write_paths :
          /\ path[1] = output_root
          /\ path[1] \in made_dirs
    /\ glob_matches = <<>> => made_dirs = {}

\* sf.write has been called for the second of two files, and the output
\* directory is the one directory created.
C9_Witness ==
    /\ pc = "called"
    /\ Len(calls) = 2
    /\ Cardinality(write_paths) = 2
    /\ made_dirs = {output_root}

=============================================================================
